---- MODULE Spec2Model ----
(***************************************************************************)
(* Model of the manga downloader: the in-memory job table, the FIFO queue  *)
(* and its single worker (manga-downloader/src/main.py), the chapter loop  *)
(* of DownloadManager.process_job (download_manager.py) and the            *)
(* rate-limited, auth-refreshing MangaDexClient (mangadex_client.py).      *)
(*                                                                         *)
(* Spec       : job table, queue, worker and the chapter-level pipeline.   *)
(* FairSpec   : Spec with a fair worker and terminating pipeline runs.     *)
(* ClientSpec : MangaDexClient._limited_get, its two AsyncLimiter windows, *)
(*              the credential paths, and the direct image / cover GETs    *)
(*              that download_manager.py issues on the client's transport. *)
(* ListSpec   : the paginated chapter listing of process_job.              *)
(* FilterSpec : the volume / chapter filter of process_job.                *)
(* ImgSpec    : one chapter of the chapter loop: at-home lookup, tier      *)
(*              selection, the per-image attempt loop, the fallback pass.  *)
(* PackSpec   : the chapter loop with its archives: skip or package, the   *)
(*              temporary archive and its move into the library.           *)
(* SendsSpec  : the worker and the request handlers as coroutines calling  *)
(*              the shared client's send.                                  *)
(* ScanSpec   : trigger_komga_scan, its debounce and its two callers.      *)
(***************************************************************************)
EXTENDS Integers, Sequences, FiniteSets, TLC

VARIABLES
    jobs,       \* main.py:39   job table: job id -> [status, result, error]
    queue,      \* main.py:40   asyncio.Queue of job ids (FIFO)
    wjob,       \* main.py:115  the job whose process_job the worker awaits; NoJob at queue.get()
    pstate,     \* download_manager.py:181  one process_job activation per job: position and locals
    abortLog,   \* history: the status each job had when abort_job marked it aborted
    cpc,            \* mangadex_client.py:71  position of the send (_limited_get) in progress
    access_token,   \* mangadex_client.py:19  MangaDexClient._access_token
    refresh_token,  \* mangadex_client.py:20  MangaDexClient._refresh_token
    authHeader,     \* mangadex_client.py:13  headers["Authorization"]
    hasLogin,       \* mangadex_client.py:30  username, password, client id and secret are all set
    rps_level,      \* mangadex_client.py:15  fill level of api_rps
    rpm_level,      \* mangadex_client.py:16  fill level of api_rpm
    permits,        \* the windows entered for the request about to be sent
    lastReq,        \* history: the last request dispatched on the transport
    call,           \* history: what the send in progress has done so far
    outcome,        \* what the last send gave its caller
    lst,        \* download_manager.py:201  the chapter listing loop of process_job and its upstream
    flt,        \* download_manager.py:238  the chapter filter of process_job and its inputs
    img,        \* download_manager.py:294  one iteration of the chapter loop: tier choice and image fetch
    pack,       \* download_manager.py:294  the chapter loop with its archives and the library directory
    sends,      \* main.py:153  the callers of the shared client and where each one's send stands
    scan        \* download_manager.py:470  trigger_komga_scan: _last_scan, the clock, the callers

jobVars == <<jobs, queue, wjob, pstate, abortLog>>

clientVars == <<cpc, access_token, refresh_token, authHeader, hasLogin, rps_level,
                rpm_level, permits, lastReq, call, outcome>>

stageVars == <<lst, flt, img, pack, sends, scan>>

----------------------------------------------------------------------------
(* Bounds of the model *)

MaxJobs == 2
MaxChapters == 3

(* Values *)

NoJob == 0
JobIds == 1..MaxJobs
NoError == "None"
AbortedByUser == "Aborted by user"
ExcTexts == {"[Errno 28] No space left on device", "[Errno 13] Permission denied"}
NoResult == <<>>

\* out: <<>> while running, then <<summary>> (returned) or <<exception text>> (raised)
NoRun == [pc |-> "none", n |-> 0, idx |-> 0, packaged |-> 0, skipped |-> 0, out |-> <<>>]
NoAbort == "none"

----------------------------------------------------------------------------
(* main.py: add_job, abort_job, cancel_job *)

NewJob == [status |-> "queued", result |-> NoResult, error |-> NoError]

Enqueue(q, job_id) == Append(q, job_id)

AddJob ==
    /\ Cardinality(DOMAIN jobs) < MaxJobs
    /\ LET job_id == Cardinality(DOMAIN jobs) + 1 IN
        /\ jobs' = jobs @@ (job_id :> NewJob)
        /\ queue' = Enqueue(queue, job_id)
    /\ UNCHANGED <<wjob, pstate, abortLog>>

AbortJob(job_id) ==
    /\ IF job_id \notin DOMAIN jobs
       THEN UNCHANGED <<jobs, abortLog>>
       ELSE IF jobs[job_id].status \in {"running", "queued"}
       THEN /\ jobs' = [jobs EXCEPT ![job_id].status = "aborted",
                                    ![job_id].error = AbortedByUser]
            /\ abortLog' = [abortLog EXCEPT ![job_id] = jobs[job_id].status]
       ELSE UNCHANGED <<jobs, abortLog>>
    /\ UNCHANGED <<queue, wjob, pstate>>

CancelJob(job_id) ==
    /\ IF job_id \notin DOMAIN jobs
       THEN UNCHANGED jobs
       ELSE IF jobs[job_id].status # "queued"
       THEN UNCHANGED jobs
       ELSE jobs' = [jobs EXCEPT ![job_id].status = "canceled"]
    /\ UNCHANGED <<queue, wjob, pstate, abortLog>>

----------------------------------------------------------------------------
(* main.py: worker *)

WorkerReady_NoAwait == TRUE

WorkerReady == wjob = NoJob

SkipOnDequeue_Never(job) == FALSE

SkipOnDequeue(job) == job.status = "aborted"

OnReturn_StatusUntouched(job, result) == [job EXCEPT !.result = <<result>>]

OnReturn_AlwaysCompleted(job, result) ==
    [job EXCEPT !.status = "completed", !.result = <<result>>]

OnReturn(job, result) ==
    [job EXCEPT !.status = IF job.status = "aborted" THEN "aborted" ELSE "completed",
                !.result = <<result>>]

OnRaise_KeepStatus(job, e) ==
    [job EXCEPT !.status = IF job.status = "aborted" THEN "aborted" ELSE "failed",
                !.error = IF job.status = "aborted" THEN job.error ELSE e]

OnRaise(job, e) == [job EXCEPT !.status = "failed", !.error = e]

WorkerDequeue ==
    /\ WorkerReady
    /\ queue # <<>>
    /\ LET job_id == Head(queue) IN
        /\ queue' = Tail(queue)
        /\ IF job_id \notin DOMAIN jobs
           THEN UNCHANGED <<jobs, wjob, pstate>>
           ELSE IF SkipOnDequeue(jobs[job_id])
           THEN UNCHANGED <<jobs, wjob, pstate>>
           ELSE /\ jobs' = [jobs EXCEPT ![job_id].status = "running"]
                /\ wjob' = job_id
                /\ pstate' = [pstate EXCEPT ![job_id] = [NoRun EXCEPT !.pc = "discover"]]
    /\ UNCHANGED abortLog

----------------------------------------------------------------------------
(* download_manager.py: process_job at chapter granularity *)

ResultSummary(run) ==
    [chapters_processed |-> run.n,
     chapters_packaged |-> run.packaged,
     skipped_chapters |-> run.skipped]

Advance(run) ==
    IF run.idx = run.n THEN [run EXCEPT !.pc = "final"]
    ELSE [run EXCEPT !.idx = run.idx + 1]

\* get_manga, chapter listing and filtering: n chapters are retained
PipelineDiscover(j, n) ==
    /\ pstate[j].pc = "discover"
    /\ pstate' = [pstate EXCEPT ![j] =
            IF n = 0 THEN [@ EXCEPT !.pc = "final"]
            ELSE [@ EXCEPT !.pc = "chapter", !.n = n, !.idx = 1]]
    /\ UNCHANGED <<jobs, queue, wjob, abortLog>>

\* one iteration of `for ch in chapters` that ends in `continue`
PipelineChapterSkipped(j) ==
    /\ pstate[j].pc = "chapter"
    /\ pstate' = [pstate EXCEPT ![j] = Advance([@ EXCEPT !.skipped = @ + 1])]
    /\ UNCHANGED <<jobs, queue, wjob, abortLog>>

\* one iteration that fetches the images and writes and moves the archive
PipelineChapterPackaged(j) ==
    /\ pstate[j].pc = "chapter"
    /\ pstate' = [pstate EXCEPT ![j] = Advance([@ EXCEPT !.packaged = @ + 1])]
    /\ UNCHANGED <<jobs, queue, wjob, abortLog>>

\* an exception escapes the iteration (makedirs, ZipFile, shutil.move) and
\* reaches the worker's except clause
PipelineRaise(j, e) ==
    /\ pstate[j].pc = "chapter"
    /\ pstate' = [pstate EXCEPT ![j] = [NoRun EXCEPT !.pc = "raised", !.out = <<e>>]]
    /\ jobs' = [jobs EXCEPT ![j] = OnRaise(@, e)]
    /\ wjob' = NoJob
    /\ UNCHANGED <<queue, abortLog>>

\* the trailing scan trigger, the summary, and the worker's code after the await
PipelineReturn(j) ==
    /\ pstate[j].pc = "final"
    /\ pstate' = [pstate EXCEPT ![j] = [NoRun EXCEPT !.pc = "returned", !.out = <<ResultSummary(pstate[j])>>]]
    /\ jobs' = [jobs EXCEPT ![j] = OnReturn(@, ResultSummary(pstate[j]))]
    /\ wjob' = NoJob
    /\ UNCHANGED <<queue, abortLog>>


----------------------------------------------------------------------------
(* download_manager.py: the stages of process_job, not started *)

NoListing == [pc |-> "none"]
NoFilter == [pc |-> "none"]
NoChapter == [pc |-> "none"]
NoPackaging == [pc |-> "none"]
NoSends == [pc |-> "none"]
NoScan == [pc |-> "none"]

OthersAtRest ==
    /\ pack = NoPackaging
    /\ sends = NoSends
    /\ scan = NoScan

----------------------------------------------------------------------------
(* download_manager.py: process_job, chapter listing (lines 201-236) *)

MaxTotal == 4

limit_default == 500
fallback_limit == 100

\* what a page request can end in: a page, HTTPStatusError with status 400,
\* HTTPStatusError with another status, or another exception
PageErrors == {"http400", "httpOther", "other"}

\* the upstream's chapters offset+1 .. offset+b
Page(offset, b) == [i \in 1..b |-> offset + i]

Min(a, b) == IF a <= b THEN a ELSE b

\* the page sizes the upstream may answer a request (limit, offset) with
PageSizes(T, limit, offset) == 0..Min(limit, T - offset)

\* offset += len(batch)
NextOffset_ByLimit(offset, batch, limit) == offset + limit

NextOffset(offset, batch, limit) == offset + Len(batch)

\* e.response.status_code == 400 and limit != fallback_limit
FallsBack_Always(kind, limit) == kind = "http400"

FallsBack(kind, limit) == kind = "http400" /\ limit # fallback_limit

\* the handlers around a page request catch the exception: HTTPStatusError
\* by the inner handlers, every other Exception by the outer one
ListingCatches_HttpOnly(kind) == kind \in {"http400", "httpOther"}

ListingCatches(kind) == kind \in {"http400", "httpOther", "other"}

ListingNew(T) ==
    [pc |-> "request", T |-> T, chapters |-> <<>>, offset |-> 0,
     limit |-> limit_default,
     \* history: the pages received, the last one's size and total, the number
     \* of switches of the page size, the outcome of the request before this one
     pages |-> <<>>, last |-> [n |-> 0, total |-> 0], switches |-> 0,
     failed |-> FALSE, prev |-> [kind |-> "none", limit |-> 0, offset |-> 0]]

\* the rest of an iteration once chapters_json is there
TakeBatch(l, batch, total) ==
    IF batch = <<>>
    THEN [l EXCEPT !.pc = "done"]
    ELSE LET off == NextOffset(l.offset, batch, l.limit) IN
         [l EXCEPT !.chapters = l.chapters \o batch,
                   !.offset = off,
                   !.pc = IF off >= total THEN "done" ELSE "request"]

\* a page request (first or fallback) is answered with a page of b items
PageOk(b, total) ==
    /\ lst.pc \in {"request", "fallback"}
    /\ b \in PageSizes(lst.T, lst.limit, lst.offset)
    /\ lst' = TakeBatch([lst EXCEPT !.pages = Append(@, Page(lst.offset, b)),
                                    !.last = [n |-> b, total |-> total],
                                    !.prev = [kind |-> "page", limit |-> lst.limit,
                                              offset |-> lst.offset]],
                        Page(lst.offset, b), total)

\* the first request of an iteration raises
PageError(kind) ==
    /\ lst.pc = "request"
    /\ LET l == [lst EXCEPT !.prev = [kind |-> kind, limit |-> lst.limit,
                                      offset |-> lst.offset]] IN
       lst' = IF ~ListingCatches(kind)
              THEN [l EXCEPT !.pc = "raised", !.failed = TRUE]
              ELSE IF kind = "other"
              THEN [l EXCEPT !.pc = "done", !.failed = TRUE]
              ELSE IF FallsBack(kind, lst.limit)
              THEN [l EXCEPT !.limit = fallback_limit, !.pc = "fallback",
                             !.switches = @ + 1]
              ELSE TakeBatch([l EXCEPT !.failed = TRUE], <<>>, 0)

\* the retry with the fallback limit raises
FallbackError(kind) ==
    /\ lst.pc = "fallback"
    /\ LET l == [lst EXCEPT !.prev = [kind |-> kind, limit |-> lst.limit,
                                      offset |-> lst.offset],
                            !.failed = TRUE] IN
       lst' = IF ~ListingCatches(kind)
              THEN [l EXCEPT !.pc = "raised"]
              ELSE IF kind = "other"
              THEN [l EXCEPT !.pc = "done"]
              ELSE TakeBatch(l, <<>>, 0)

ListInit == \E T \in 0..MaxTotal : lst = ListingNew(T)

ListNext ==
    \/ \E b \in 0..MaxTotal, total \in 0..MaxTotal :
           /\ total \in {0, lst.T}
           /\ PageOk(b, total)
           /\ UNCHANGED <<jobVars, clientVars, flt, img, pack, sends, scan>>
    \/ \E kind \in PageErrors : PageError(kind) /\ UNCHANGED <<jobVars, clientVars, flt, img, pack, sends, scan>>
    \/ \E kind \in PageErrors : FallbackError(kind) /\ UNCHANGED <<jobVars, clientVars, flt, img, pack, sends, scan>>

----------------------------------------------------------------------------
(* download_manager.py: process_job, filtering (lines 238-286) *)

MaxList == 2
MaxFilter == 2

\* attrs.get("volume") / attrs.get("chapter") of a chapter without the key
None == "<None>"

ChapterLabels == {None, "1", "2.0", "x"}
VolumeLabels == {None, "1", "2"}
Chapters == [volume : VolumeLabels, chapter : ChapterLabels]

SeqsUpTo(S, n) == UNION {[1..k -> S] : k \in 0..n}

\* a job field that is None, or a list of strings
Absent == [present |-> FALSE, items |-> <<>>]
Given(items) == [present |-> TRUE, items |-> items]
VolumeFilters == {Absent} \cup {Given(s) : s \in SeqsUpTo({"1"}, MaxFilter)}
ChapterFilters == {Absent} \cup {Given(s) : s \in SeqsUpTo({"1", "2", "x"}, MaxFilter)}

\* job.get(key) or []
OrEmpty(field) == IF field.present /\ field.items # <<>> THEN field.items ELSE <<>>

\* truth value of a list: "if volumes_filter:"
Truthy_Any(list) == TRUE

Truthy(list) == list # <<>>

\* float(str(chval)), in tenths; <<>> is None
chapter_str_to_float(chval) ==
    CASE chval = None -> <<>>
      [] chval = "1" -> <<10>>
      [] chval = "2" -> <<20>>
      [] chval = "2.0" -> <<20>>
      [] OTHER -> <<>>

RangeMode_AnyTwo(chapters_filter) == Len(chapters_filter) = 2

RangeMode(chapters_filter) ==
    /\ Len(chapters_filter) = 2
    /\ chapter_str_to_float(chapters_filter[1]) # <<>>
    /\ chapter_str_to_float(chapters_filter[2]) # <<>>

\* ch_start <= chnum_f <= ch_end
InRange_NoUpper(ch_start, chnum_f, ch_end) == ch_start[1] <= chnum_f[1]

InRange(ch_start, chnum_f, ch_end) ==
    ch_start[1] <= chnum_f[1] /\ chnum_f[1] <= ch_end[1]

Elems(list) == {list[i] : i \in 1..Len(list)}

\* the "if volumes_filter:" block does not return False
VolumeBlockPasses(ch, volumes_filter) ==
    Truthy(volumes_filter)
        => ~(ch.volume = None \/ ch.volume \notin Elems(volumes_filter))

\* the "if chapters_filter:" block does not return False
ChapterBlockPasses(ch, chapters_filter) ==
    LET chnum_f == chapter_str_to_float(ch.chapter)
        ch_start == IF Len(chapters_filter) = 2
                    THEN chapter_str_to_float(chapters_filter[1]) ELSE <<>>
        ch_end == IF Len(chapters_filter) = 2
                  THEN chapter_str_to_float(chapters_filter[2]) ELSE <<>>
    IN  Truthy(chapters_filter)
            => IF RangeMode(chapters_filter)
               THEN /\ ~(chnum_f = <<>> \/ ch_start = <<>> \/ ch_end = <<>>)
                    /\ InRange(ch_start, chnum_f, ch_end)
               ELSE ~(ch.chapter = None \/ ch.chapter \notin Elems(chapters_filter))

include_chapter_Either(ch, volumes_filter, chapters_filter) ==
    \/ VolumeBlockPasses(ch, volumes_filter)
    \/ ChapterBlockPasses(ch, chapters_filter)

include_chapter(ch, volumes_filter, chapters_filter) ==
    /\ VolumeBlockPasses(ch, volumes_filter)
    /\ ChapterBlockPasses(ch, chapters_filter)

\* [c for c in chapters if include_chapter(c)]
RECURSIVE Comprehension(_, _, _)
Comprehension(chapters, volumes_filter, chapters_filter) ==
    IF chapters = <<>> THEN <<>>
    ELSE (IF include_chapter(Head(chapters), volumes_filter, chapters_filter)
          THEN <<Head(chapters)>> ELSE <<>>)
         \o Comprehension(Tail(chapters), volumes_filter, chapters_filter)

FilterNew(chapters, volumes, chapters_field) ==
    [pc |-> "start", chapters |-> chapters,
     volumes |-> volumes, chapters_field |-> chapters_field,
     applied |-> FALSE, out |-> <<>>]

\* if volumes_filter or chapters_filter: the comprehension is applied
FilterApplied ==
    LET volumes_filter == OrEmpty(flt.volumes)
        chapters_filter == OrEmpty(flt.chapters_field)
    IN  /\ flt.pc = "start"
        /\ Truthy(volumes_filter) \/ Truthy(chapters_filter)
        /\ flt' = [flt EXCEPT !.pc = "done", !.applied = TRUE,
                              !.out = Comprehension(flt.chapters, volumes_filter,
                                                    chapters_filter)]

\* else: chapters is left as it is
FilterNotApplied ==
    LET volumes_filter == OrEmpty(flt.volumes)
        chapters_filter == OrEmpty(flt.chapters_field)
    IN  /\ flt.pc = "start"
        /\ ~(Truthy(volumes_filter) \/ Truthy(chapters_filter))
        /\ flt' = [flt EXCEPT !.pc = "done", !.out = flt.chapters]

FilterInit ==
    \E chapters \in SeqsUpTo(Chapters, MaxList), volumes \in VolumeFilters,
       chapters_field \in ChapterFilters :
        flt = FilterNew(chapters, volumes, chapters_field)

FilterNext ==
    \/ FilterApplied /\ UNCHANGED <<jobVars, clientVars, lst, img, pack, sends, scan>>
    \/ FilterNotApplied /\ UNCHANGED <<jobVars, clientVars, lst, img, pack, sends, scan>>

----------------------------------------------------------------------------
(* download_manager.py: process_job, one chapter's images (lines 294-406) *)

\* the longest full-quality list and the longest reduced-quality list of a
\* chapter; the second is above Consecutive400Limit
MaxImages == 2
MaxSaver == 6

\* for attempt in range(3)
Attempts == 3
\* consecutive_400s >= 5
Consecutive400Limit == 5

\* what a GET of an image URL ends in: 200, 429, an error whose text holds
\* "400", or another error
ImageAnswers == {"ok", "429", "400", "error"}

\* the last image whose attempt loop was left: none yet
NoImage == [tier |-> "none", ok |-> FALSE, non429 |-> 0, counted |-> 0]

ChapterNew(use_datasaver, errors) ==
    [pc |-> "start", use_datasaver |-> use_datasaver,
     base_ok |-> FALSE, data_regular |-> 0, data_saver |-> 0,
     data_kind |-> "none", data |-> 0, pass |-> "none",
     i |-> 0, attempt |-> 0, image_bytes |-> <<>>, consecutive_400s |-> 0,
     errors |-> errors, errors_before |-> errors,
     skipped_chapters |-> 0, skipped_external |-> 0, skipped_no_images |-> 0,
     \* history: the counters when the chapter was entered, the requests made
     \* for the current image, the last image left
     errors_at_entry |-> errors, requests |-> 0, non429 |-> 0, left |-> NoImage,
     \* history: the number of images since the last one that did not end in a
     \* "400" failure, the errors counted in the fallback pass
     run400 |-> 0, fallback_errors |-> 0,
     \* history: the error counter when the attempt loop of the current image
     \* was entered
     errors_at_image |-> errors]

\* lines 313-325: the list to fetch from and its kind
SelectTier_NoSubstitute(prefer_datasaver, data_regular, data_saver) ==
    IF prefer_datasaver
    THEN [data |-> data_saver, data_kind |-> "data-saver"]
    ELSE [data |-> data_regular, data_kind |-> "data"]

SelectTier(prefer_datasaver, data_regular, data_saver) ==
    IF prefer_datasaver
    THEN IF data_saver = 0 /\ data_regular > 0
         THEN [data |-> data_regular, data_kind |-> "data"]
         ELSE [data |-> data_saver, data_kind |-> "data-saver"]
    ELSE IF data_regular = 0 /\ data_saver > 0
         THEN [data |-> data_saver, data_kind |-> "data-saver"]
         ELSE [data |-> data_regular, data_kind |-> "data"]

\* lines 402-406: the chapter is skipped for lack of images, or goes on to
\* packaging
Conclude(c) ==
    IF c.image_bytes = <<>>
    THEN [c EXCEPT !.pc = "skipped", !.skipped_no_images = @ + 1,
                   !.skipped_chapters = @ + 1]
    ELSE [c EXCEPT !.pc = "package"]

StartImage(c, i) ==
    [c EXCEPT !.i = i, !.attempt = 0, !.requests = 0, !.non429 = 0,
              !.errors_at_image = c.errors]

\* consecutive_400s >= 5 and data_kind == "data-saver" and data_regular
BreakerTripped_Late(c) ==
    /\ c.consecutive_400s > Consecutive400Limit
    /\ c.data_kind = "data-saver"
    /\ c.data_regular > 0

BreakerTripped(c) ==
    /\ c.consecutive_400s >= Consecutive400Limit
    /\ c.data_kind = "data-saver"
    /\ c.data_regular > 0

\* lines 372-373: after the first pass
AfterFirstPass(c) ==
    IF c.image_bytes = <<>> /\ c.data_kind = "data-saver" /\ c.data_regular > 0
    THEN StartImage([c EXCEPT !.pc = "fallback_fetch", !.pass = "fallback",
                              !.image_bytes = <<>>, !.errors_before = c.errors], 1)
    ELSE Conclude(c)

\* lines 396-400: after the fallback pass
AfterFallbackPass(c) ==
    Conclude(IF c.image_bytes # <<>> THEN [c EXCEPT !.errors = c.errors_before]
             ELSE c)

\* the attempt loop of image c.i of the first pass has been left
LeaveImage(c, ok) ==
    LET d == [c EXCEPT !.left = [tier |-> c.data_kind, ok |-> ok,
                                 non429 |-> c.non429,
                                 counted |-> c.errors - c.errors_at_image]]
    IN  IF BreakerTripped(d) THEN AfterFirstPass(d)
        ELSE IF d.i < d.data THEN StartImage(d, d.i + 1)
        ELSE AfterFirstPass(d)

\* the attempt loop of image c.i of the fallback pass has been left
LeaveFallbackImage(c, ok) ==
    LET d == [c EXCEPT !.left = [tier |-> "data", ok |-> ok,
                                 non429 |-> c.non429,
                                 counted |-> c.errors - c.errors_at_image]]
    IN  IF d.i < d.data_regular THEN StartImage(d, d.i + 1)
        ELSE AfterFallbackPass(d)

\* lines 296-304: a chapter without an id, or hosted elsewhere, is skipped
ChapterEnter(has_id, external) ==
    /\ img.pc = "start"
    /\ img' = IF ~has_id
              THEN [img EXCEPT !.pc = "skipped", !.skipped_chapters = @ + 1]
              ELSE IF external
              THEN [img EXCEPT !.pc = "skipped", !.skipped_external = @ + 1,
                               !.skipped_chapters = @ + 1]
              ELSE [img EXCEPT !.pc = "at_home"]

\* lines 305-312: get_at_home raises
AtHomeRaises ==
    /\ img.pc = "at_home"
    /\ img' = [img EXCEPT !.pc = "skipped", !.errors = @ + 1,
                          !.skipped_chapters = @ + 1]

\* lines 313-339: get_at_home returns; tier selection
AtHomeReturns(base_ok, data_regular, data_saver) ==
    /\ img.pc = "at_home"
    /\ LET sel == SelectTier(img.use_datasaver, data_regular, data_saver)
           c == [img EXCEPT !.base_ok = base_ok, !.data_regular = data_regular,
                            !.data_saver = data_saver, !.data = sel.data,
                            !.data_kind = sel.data_kind]
       IN  img' = IF ~(base_ok /\ sel.data > 0)
                  THEN [c EXCEPT !.pc = "skipped", !.skipped_no_images = @ + 1,
                                 !.skipped_chapters = @ + 1]
                  ELSE StartImage([c EXCEPT !.pc = "fetch", !.pass = "first",
                                            !.image_bytes = <<>>,
                                            !.consecutive_400s = 0], 1)

\* lines 343-368: one GET of the current image of the first pass is answered
ImageAnswer(kind) ==
    /\ img.pc = "fetch"
    /\ LET c == [img EXCEPT !.requests = @ + 1,
                            !.non429 = IF kind = "429" THEN @ ELSE @ + 1]
       IN  img' =
             CASE kind = "ok" ->
                    LeaveImage([c EXCEPT !.image_bytes = Append(@, <<c.data_kind, c.i>>),
                                         !.consecutive_400s = 0, !.run400 = 0], TRUE)
               [] kind = "429" ->
                    \* continue: the next attempt of range(3), if there is one
                    IF c.attempt + 1 < Attempts THEN [c EXCEPT !.attempt = @ + 1]
                    ELSE LeaveImage([c EXCEPT !.run400 = 0], FALSE)
               [] OTHER ->
                    IF c.attempt = Attempts - 1
                    THEN LeaveImage([c EXCEPT !.errors = @ + 1,
                                              !.consecutive_400s =
                                                  IF kind = "400" THEN @ + 1 ELSE @,
                                              !.run400 =
                                                  IF kind = "400" THEN @ + 1 ELSE 0],
                                    FALSE)
                    ELSE [c EXCEPT !.attempt = @ + 1]

\* lines 380-395: one GET of the current image of the fallback pass is answered
FallbackAnswer(kind) ==
    /\ img.pc = "fallback_fetch"
    /\ LET c == [img EXCEPT !.requests = @ + 1,
                            !.non429 = IF kind = "429" THEN @ ELSE @ + 1]
       IN  img' =
             CASE kind = "ok" ->
                    LeaveFallbackImage([c EXCEPT !.image_bytes = Append(@, <<"data", c.i>>)],
                                       TRUE)
               [] kind = "429" ->
                    IF c.attempt + 1 < Attempts THEN [c EXCEPT !.attempt = @ + 1]
                    ELSE LeaveFallbackImage(c, FALSE)
               [] OTHER ->
                    IF c.attempt = Attempts - 1
                    THEN LeaveFallbackImage([c EXCEPT !.errors = @ + 1,
                                                      !.fallback_errors = @ + 1], FALSE)
                    ELSE [c EXCEPT !.attempt = @ + 1]

ChapterInit ==
    \E use_datasaver \in BOOLEAN, errors \in 0..1 :
        img = ChapterNew(use_datasaver, errors)

ChapterNext ==
    \/ \E has_id \in BOOLEAN, external \in BOOLEAN :
           ChapterEnter(has_id, external) /\ UNCHANGED <<jobVars, clientVars, lst, flt, pack, sends, scan>>
    \/ AtHomeRaises /\ UNCHANGED <<jobVars, clientVars, lst, flt, pack, sends, scan>>
    \/ \E base_ok \in BOOLEAN, data_regular \in 0..MaxImages, data_saver \in 0..MaxSaver :
           AtHomeReturns(base_ok, data_regular, data_saver)
               /\ UNCHANGED <<jobVars, clientVars, lst, flt, pack, sends, scan>>
    \/ \E kind \in ImageAnswers : ImageAnswer(kind) /\ UNCHANGED <<jobVars, clientVars, lst, flt, pack, sends, scan>>
    \/ \E kind \in ImageAnswers : FallbackAnswer(kind) /\ UNCHANGED <<jobVars, clientVars, lst, flt, pack, sends, scan>>

----------------------------------------------------------------------------
(* download_manager.py: process_job, the chapter loop and its archives    *)
(* (lines 294-468)                                                        *)

MaxPack == 2

\* what lines 296-406 leave of a chapter: it has no id; it is hosted
\* elsewhere; get_at_home raised; the answer had no base URL, hash or
\* filenames; or the image sequence fetched (the indexes of the filenames
\* whose bytes were appended) and the errors counted
Acquisitions ==
    {[kind |-> "no_id", images |-> <<>>, errors |-> 0],
     [kind |-> "external", images |-> <<>>, errors |-> 0],
     [kind |-> "at_home_raises", images |-> <<>>, errors |-> 1],
     [kind |-> "no_source", images |-> <<>>, errors |-> 0],
     [kind |-> "fetched", images |-> <<>>, errors |-> 1],
     [kind |-> "fetched", images |-> <<1, 2>>, errors |-> 0],
     [kind |-> "fetched", images |-> <<1, 3>>, errors |-> 1]}

\* attributes.chapter and attributes.title of a chapter
ChapterNumbers == {None, "1"}
ChapterTitles == {"", "a"}

ListedChapters == [chapter : ChapterNumbers, title : ChapterTitles, acq : Acquisitions]

\* chapter_id of the k-th chapter of the list
ChapterId(k) == <<"id", k>>

\* ch.get("attributes", {}).get("chapter") or chapter_id
ChapterNumber(ch, k) == IF ch.chapter = None THEN ChapterId(k) ELSE <<ch.chapter>>

\* f"c{chapter_number} {safe_chapter_title}.cbz", or f"c{chapter_number}.cbz"
FinalPath(ch, k) == <<ChapterNumber(ch, k), ch.title>>

\* the entry "ComicInfo.xml", and the entry f"{idx:03d}.jpg" holding the bytes
\* of the filename with index source
ComicInfoEntry == [name |-> 0, content |-> 0]

ImageEntry_NamedBySource(idx, source) == [name |-> source, content |-> source]

ImageEntry(idx, source) == [name |-> idx, content |-> source]

\* the entries the with-block writes for a chapter, in order
ArchiveEntries(comic_info_xml, image_bytes) ==
    (IF comic_info_xml THEN <<ComicInfoEntry>> ELSE <<>>)
        \o [idx \in 1..Len(image_bytes) |-> ImageEntry(idx, image_bytes[idx])]

NoFile == [state |-> "absent", entries |-> <<>>]

PackagingNew(chapters, has_metadata) ==
    [pc |-> IF chapters = <<>> THEN "final" ELSE "chapter",
     chapters |-> chapters, has_metadata |-> has_metadata,
     idx |-> IF chapters = <<>> THEN 0 ELSE 1,
     tmp |-> <<>>,
     library |-> [path \in {FinalPath(chapters[k], k) : k \in 1..Len(chapters)} |-> NoFile],
     created_files |-> <<>>,
     skipped_chapters |-> 0, skipped_external |-> 0, skipped_no_images |-> 0,
     errors |-> 0,
     result |-> <<>>,
     \* history: how the iteration of each chapter taken so far ended
     outcomes |-> <<>>]

\* the next iteration of "for ch in chapters", or the end of the loop
NextChapter(p) ==
    IF p.idx = Len(p.chapters) THEN [p EXCEPT !.pc = "final"]
    ELSE [p EXCEPT !.pc = "chapter", !.idx = @ + 1]

\* an iteration that ends in "continue"; counter is the counter incremented
\* next to skipped_chapters, if any
SkipChapter_Raises(p, counter) == [p EXCEPT !.pc = "raised"]

SkipChapter_OwnCounterOnly(p, counter) ==
    NextChapter([p EXCEPT !.skipped_chapters = IF counter = "none" THEN @ + 1 ELSE @,
                          !.skipped_external = IF counter = "external" THEN @ + 1 ELSE @,
                          !.skipped_no_images = IF counter = "no_images" THEN @ + 1 ELSE @,
                          !.outcomes = Append(@, "skipped")])

SkipChapter(p, counter) ==
    NextChapter([p EXCEPT !.skipped_chapters = @ + 1,
                          !.skipped_external = IF counter = "external" THEN @ + 1 ELSE @,
                          !.skipped_no_images = IF counter = "no_images" THEN @ + 1 ELSE @,
                          !.outcomes = Append(@, "skipped")])

\* lines 294-406, 408-432: the chapter is skipped, or its temporary archive
\* is opened
TakeChapter ==
    /\ pack.pc = "chapter"
    /\ LET acq == pack.chapters[pack.idx].acq
           p == [pack EXCEPT !.errors = @ + acq.errors]
       IN  pack' = CASE acq.kind = "no_id" -> SkipChapter(p, "none")
                     [] acq.kind = "external" -> SkipChapter(p, "external")
                     [] acq.kind = "at_home_raises" -> SkipChapter(p, "none")
                     [] acq.kind = "no_source" -> SkipChapter(p, "no_images")
                     [] acq.images = <<>> -> SkipChapter(p, "no_images")
                     [] OTHER -> [p EXCEPT !.pc = "write", !.tmp = <<>>]

\* where the iteration goes after an entry was written
AfterWrite_MovesAtOnce(written, all) == "move"

AfterWrite(written, all) == IF written = all THEN "move" ELSE "write"

\* lines 434-449: one writestr
WriteEntry ==
    /\ pack.pc = "write"
    /\ LET entries == ArchiveEntries(pack.has_metadata,
                                     pack.chapters[pack.idx].acq.images)
           tmp == Append(pack.tmp, entries[Len(pack.tmp) + 1])
       IN  pack' = [pack EXCEPT !.tmp = tmp,
                                !.pc = AfterWrite(Len(tmp), Len(entries))]

\* makedirs, ZipFile, writestr or shutil.move raises before anything is at
\* the final path: the exception leaves process_job
PackagingRaises ==
    /\ pack.pc \in {"write", "move"}
    /\ pack' = [pack EXCEPT !.pc = "raised"]

\* the file is at final_path, complete
Packaged(p) ==
    LET path == FinalPath(p.chapters[p.idx], p.idx) IN
    NextChapter([p EXCEPT !.library[path] = [state |-> "complete", entries |-> p.tmp],
                          !.created_files = Append(@, path),
                          !.outcomes = Append(@, "packaged")])

\* line 450: shutil.move within one file system (os.rename)
MoveRename ==
    /\ pack.pc = "move"
    /\ pack' = Packaged(pack)

\* line 450: shutil.move across file systems copies the file to final_path
MoveCopyBegins ==
    /\ pack.pc = "move"
    /\ pack' = [pack EXCEPT !.pc = "copying",
                            !.library[FinalPath(pack.chapters[pack.idx], pack.idx)] =
                                [state |-> "partial", entries |-> pack.tmp]]

MoveCopyEnds(ok) ==
    /\ pack.pc = "copying"
    /\ pack' = IF ok THEN Packaged(pack) ELSE [pack EXCEPT !.pc = "raised"]

\* lines 456-468
PackResult(p) ==
    [chapters_processed |-> Len(p.chapters),
     chapters_packaged |-> Len(p.created_files),
     files_created |-> p.created_files,
     skipped_chapters |-> p.skipped_chapters,
     skipped_external |-> p.skipped_external,
     skipped_no_images |-> p.skipped_no_images,
     errors |-> p.errors]

PackReturn ==
    /\ pack.pc = "final"
    /\ pack' = [pack EXCEPT !.pc = "returned", !.result = <<PackResult(pack)>>]

PackInit ==
    \E chapters \in SeqsUpTo(ListedChapters, MaxPack), has_metadata \in BOOLEAN :
        pack = PackagingNew(chapters, has_metadata)

PackNext ==
    \/ TakeChapter /\ UNCHANGED <<jobVars, clientVars, lst, flt, img, sends, scan>>
    \/ WriteEntry /\ UNCHANGED <<jobVars, clientVars, lst, flt, img, sends, scan>>
    \/ PackagingRaises /\ UNCHANGED <<jobVars, clientVars, lst, flt, img, sends, scan>>
    \/ MoveRename /\ UNCHANGED <<jobVars, clientVars, lst, flt, img, sends, scan>>
    \/ MoveCopyBegins /\ UNCHANGED <<jobVars, clientVars, lst, flt, img, sends, scan>>
    \/ \E ok \in BOOLEAN : MoveCopyEnds(ok) /\ UNCHANGED <<jobVars, clientVars, lst, flt, img, sends, scan>>
    \/ PackReturn /\ UNCHANGED <<jobVars, clientVars, lst, flt, img, sends, scan>>

----------------------------------------------------------------------------
(* mangadex_client.py: MangaDexClient *)

API_RPS_LIMIT == 4
API_RPM_LIMIT == 100

GetStatuses == {200, 400, 401, 429, 503}
AuthStatuses == {200, 401, 503}

NoToken == "none"
NoRequest == [kind |-> "none", permits |-> {}]
NewCall == [refreshes |-> 0, resends |-> 0, refreshRes |-> "none", retried |-> FALSE]
NoOutcome == [kind |-> "none", status |-> 0, origin |-> "none"]

Returned(status) == [kind |-> "returned", status |-> status, origin |-> "get"]
Raised(status, origin) == [kind |-> "raised", status |-> status, origin |-> origin]

\* AsyncLimiter.has_capacity(1)
HasCapacity(level, max_rate) == level + 1 <= max_rate

\* raise_for_status() of a response with this status raises
IsError(status) == status >= 400

\* a caller enters _limited_get
LimitedGetCall ==
    /\ cpc = "idle"
    /\ cpc' = "ensure"
    /\ call' = NewCall
    /\ outcome' = NoOutcome
    /\ permits' = {}
    /\ UNCHANGED <<access_token, refresh_token, authHeader, hasLogin, rps_level,
                   rpm_level, lastReq>>

\* _ensure_auth up to its return or to its password-grant POST
EnsureAuth ==
    /\ cpc = "ensure"
    /\ IF access_token # NoToken
       THEN /\ authHeader' = access_token
            /\ cpc' = "acq_rpm"
            /\ UNCHANGED lastReq
       ELSE IF hasLogin
       THEN /\ cpc' = "grant_wait"
            /\ lastReq' = [kind |-> "grant", permits |-> {}]
            /\ UNCHANGED authHeader
       ELSE /\ cpc' = "acq_rpm"
            /\ UNCHANGED <<authHeader, lastReq>>
    /\ permits' = {}
    /\ UNCHANGED <<access_token, refresh_token, hasLogin, rps_level, rpm_level,
                   call, outcome>>

\* the answer to the password grant: status, and whether the body carries an
\* access token and a refresh token
GrantResponse(status, at, rt) ==
    /\ cpc = "grant_wait"
    /\ IF IsError(status)
       THEN /\ cpc' = "idle"
            /\ outcome' = Raised(status, "auth")
            /\ UNCHANGED <<access_token, refresh_token, authHeader>>
       ELSE /\ access_token' = IF at THEN "pw" ELSE NoToken
            /\ refresh_token' = IF rt THEN "rt_pw" ELSE NoToken
            /\ authHeader' = IF at THEN "pw" ELSE authHeader
            /\ cpc' = "acq_rpm"
            /\ UNCHANGED outcome
    /\ UNCHANGED <<hasLogin, rps_level, rpm_level, permits, lastReq, call>>

\* async with self.api_rpm
AcquireRpm ==
    /\ cpc \in {"acq_rpm", "acq_rpm2"}
    /\ HasCapacity(rpm_level, API_RPM_LIMIT)
    /\ rpm_level' = rpm_level + 1
    /\ permits' = permits \cup {"rpm"}
    /\ cpc' = IF cpc = "acq_rpm" THEN "acq_rps" ELSE "acq_rps2"
    /\ UNCHANGED <<access_token, refresh_token, authHeader, hasLogin, rps_level,
                   lastReq, call, outcome>>

\* async with self.api_rps, and the GET it guards is dispatched
AcquireRpsAndSend ==
    /\ cpc \in {"acq_rps", "acq_rps2"}
    /\ HasCapacity(rps_level, API_RPS_LIMIT)
    /\ rps_level' = rps_level + 1
    /\ permits' = permits \cup {"rps"}
    /\ lastReq' = [kind |-> "api", permits |-> permits \cup {"rps"}]
    /\ cpc' = IF cpc = "acq_rps" THEN "get_wait" ELSE "get2_wait"
    /\ call' = IF cpc = "acq_rps2" THEN [call EXCEPT !.resends = @ + 1] ELSE call
    /\ UNCHANGED <<access_token, refresh_token, authHeader, hasLogin, rpm_level,
                   outcome>>

\* where _limited_get goes once _refresh_auth has returned True
AfterRefresh_Recurse == "ensure"

AfterRefresh == "acq_rpm2"

\* the answer to the first GET of an activation of _limited_get
GetResponse(status) ==
    /\ cpc = "get_wait"
    /\ IF status = 429 \/ (500 <= status /\ status < 600)
       THEN \* sleep, then `return await self._limited_get(url, params)`
            /\ cpc' = "ensure"
            /\ call' = [call EXCEPT !.retried = TRUE]
            /\ UNCHANGED <<outcome, lastReq>>
       ELSE IF status = 401 /\ refresh_token # NoToken
       THEN \* _refresh_auth posts the refresh grant
            /\ cpc' = "refresh_wait"
            /\ call' = [call EXCEPT !.refreshes = @ + 1]
            /\ lastReq' = [kind |-> "refresh", permits |-> {}]
            /\ UNCHANGED outcome
       ELSE \* _refresh_auth returned False without a request, or it was not called
            /\ cpc' = "idle"
            /\ call' = IF status = 401 THEN [call EXCEPT !.refreshRes = "unavailable"] ELSE call
            /\ outcome' = IF IsError(status) THEN Raised(status, "get") ELSE Returned(status)
            /\ UNCHANGED lastReq
    /\ UNCHANGED <<access_token, refresh_token, authHeader, hasLogin, rps_level,
                   rpm_level, permits>>

\* the answer to the refresh grant, and the rest of _refresh_auth
RefreshResponse(status, at, rt) ==
    /\ cpc = "refresh_wait"
    /\ IF status = 200
       THEN /\ access_token' = IF at THEN "rf" ELSE NoToken
            /\ refresh_token' = IF rt THEN "rt_rf" ELSE refresh_token
            /\ authHeader' = IF at THEN "rf" ELSE authHeader
       ELSE UNCHANGED <<access_token, refresh_token, authHeader>>
    /\ IF status = 200 /\ at
       THEN /\ cpc' = AfterRefresh
            /\ call' = [call EXCEPT !.refreshRes = "ok"]
            /\ UNCHANGED outcome
       ELSE \* r.raise_for_status() on the 401
            /\ cpc' = "idle"
            /\ call' = [call EXCEPT !.refreshRes = "failed"]
            /\ outcome' = Raised(401, "get")
    /\ permits' = {}
    /\ UNCHANGED <<hasLogin, rps_level, rpm_level, lastReq>>

\* the answer to the GET re-sent after a refresh: raise_for_status, return
Get2Response(status) ==
    /\ cpc = "get2_wait"
    /\ cpc' = "idle"
    /\ outcome' = IF IsError(status) THEN Raised(status, "get") ELSE Returned(status)
    /\ UNCHANGED <<access_token, refresh_token, authHeader, hasLogin, rps_level,
                   rpm_level, permits, lastReq, call>>

\* download_manager.py: one image GET of process_job, on the client's transport
ImageFetch ==
    /\ cpc = "idle"
    /\ HasCapacity(rps_level, API_RPS_LIMIT)
    /\ rps_level' = rps_level + 1
    /\ lastReq' = [kind |-> "image", permits |-> {"rps"}]
    /\ UNCHANGED <<cpc, access_token, refresh_token, authHeader, hasLogin, rpm_level,
                   permits, call, outcome>>

\* download_manager.py: the cover GET of _download_series_metadata
CoverFetch ==
    /\ cpc = "idle"
    /\ HasCapacity(rps_level, API_RPS_LIMIT)
    /\ rps_level' = rps_level + 1
    /\ lastReq' = [kind |-> "cover", permits |-> {"rps"}]
    /\ UNCHANGED <<cpc, access_token, refresh_token, authHeader, hasLogin, rpm_level,
                   permits, call, outcome>>

\* time passes: the leaky buckets drain
LeakRps ==
    /\ rps_level > 0
    /\ rps_level' = rps_level - 1
    /\ UNCHANGED <<cpc, access_token, refresh_token, authHeader, hasLogin, rpm_level,
                   permits, lastReq, call, outcome>>

LeakRpm ==
    /\ rpm_level > 0
    /\ rpm_level' = rpm_level - 1
    /\ UNCHANGED <<cpc, access_token, refresh_token, authHeader, hasLogin, rps_level,
                   permits, lastReq, call, outcome>>

\* MangaDexClient.__init__ with a configured token, or none
ClientNew(token, login) ==
    /\ cpc = "idle"
    /\ access_token = token
    /\ refresh_token = NoToken
    /\ authHeader = NoToken
    /\ hasLogin = login
    /\ rps_level = 0
    /\ rpm_level = 0
    /\ permits = {}
    /\ lastReq = NoRequest
    /\ call = NewCall
    /\ outcome = NoOutcome

ClientInit == \E token \in {NoToken, "cfg"}, login \in BOOLEAN : ClientNew(token, login)

ClientNext ==
    \/ LimitedGetCall /\ UNCHANGED <<jobVars, stageVars>>
    \/ EnsureAuth /\ UNCHANGED <<jobVars, stageVars>>
    \/ \E status \in AuthStatuses, at \in BOOLEAN, rt \in BOOLEAN : GrantResponse(status, at, rt) /\ UNCHANGED <<jobVars, stageVars>>
    \/ AcquireRpm /\ UNCHANGED <<jobVars, stageVars>>
    \/ AcquireRpsAndSend /\ UNCHANGED <<jobVars, stageVars>>
    \/ \E status \in GetStatuses : GetResponse(status) /\ UNCHANGED <<jobVars, stageVars>>
    \/ \E status \in AuthStatuses, at \in BOOLEAN, rt \in BOOLEAN : RefreshResponse(status, at, rt) /\ UNCHANGED <<jobVars, stageVars>>
    \/ \E status \in GetStatuses : Get2Response(status) /\ UNCHANGED <<jobVars, stageVars>>
    \/ ImageFetch /\ UNCHANGED <<jobVars, stageVars>>
    \/ CoverFetch /\ UNCHANGED <<jobVars, stageVars>>
    \/ LeakRps /\ UNCHANGED <<jobVars, stageVars>>
    \/ LeakRpm /\ UNCHANGED <<jobVars, stageVars>>

----------------------------------------------------------------------------
(* main.py, mangadex_client.py: the coroutines that call the shared       *)
(* client's _limited_get on one event loop                                *)

\* the worker (process_job), GET /mangadex/search, GET /mangadex/chapters
Callers == {"worker", "search", "chapters"}

SendAnswers == {200, 401, 429, 503}

SendsNew(token, login) ==
    [pc |-> [c \in Callers |-> "idle"],
     access_token |-> token, refresh_token |-> FALSE, login |-> login,
     \* history: how the send that ended last did end
     ended |-> "none"]

\* _ensure_auth up to its first await, then the GET: the password grant is
\* posted when there is no access token and the login is configured
AfterEnsureAuth(s) ==
    IF ~s.access_token /\ s.login THEN "grant" ELSE "get"

\* a coroutine calls _limited_get
SendCall(c) ==
    /\ sends.pc[c] = "idle"
    /\ sends' = [sends EXCEPT !.pc[c] = AfterEnsureAuth(sends)]

\* lines 40-47: the password grant is answered
SendGrantAnswer(c, ok, at, rt) ==
    /\ sends.pc[c] = "grant"
    /\ sends' = IF ~ok THEN [sends EXCEPT !.pc[c] = "idle", !.ended = "grant raised"]
                ELSE [sends EXCEPT !.pc[c] = "get", !.access_token = at,
                                   !.refresh_token = rt]

\* lines 75-91: the GET is answered
SendGetAnswer(c, status) ==
    /\ sends.pc[c] = "get"
    /\ sends' = IF status = 429 \/ (500 <= status /\ status < 600)
                THEN [sends EXCEPT !.pc[c] = AfterEnsureAuth(sends)]
                ELSE IF status = 401 /\ sends.refresh_token
                THEN [sends EXCEPT !.pc[c] = "refresh"]
                ELSE [sends EXCEPT !.pc[c] = "idle", !.ended = "answered"]

\* lines 60-69, 85-91: the refresh grant is answered
SendRefreshAnswer(c, ok, at, rt) ==
    /\ sends.pc[c] = "refresh"
    /\ sends' = IF ~ok THEN [sends EXCEPT !.pc[c] = "idle", !.ended = "not refreshed"]
                ELSE [sends EXCEPT !.pc[c] = IF at THEN "get2" ELSE "idle",
                                   !.ended = IF at THEN @ ELSE "not refreshed",
                                   !.access_token = at,
                                   !.refresh_token = rt \/ sends.refresh_token]

\* lines 89-92: the GET sent again is answered
SendGet2Answer(c) ==
    /\ sends.pc[c] = "get2"
    /\ sends' = [sends EXCEPT !.pc[c] = "idle", !.ended = "answered again"]

SendsInit ==
    \E token \in BOOLEAN, login \in BOOLEAN : sends = SendsNew(token, login)

SendsNext ==
    \/ \E c \in Callers : SendCall(c) /\ UNCHANGED <<jobVars, clientVars, lst, flt, img, pack, scan>>
    \/ \E c \in Callers, ok \in BOOLEAN, at \in BOOLEAN, rt \in BOOLEAN :
           SendGrantAnswer(c, ok, at, rt)
               /\ UNCHANGED <<jobVars, clientVars, lst, flt, img, pack, scan>>
    \/ \E c \in Callers, status \in SendAnswers :
           SendGetAnswer(c, status) /\ UNCHANGED <<jobVars, clientVars, lst, flt, img, pack, scan>>
    \/ \E c \in Callers, ok \in BOOLEAN, at \in BOOLEAN, rt \in BOOLEAN :
           SendRefreshAnswer(c, ok, at, rt)
               /\ UNCHANGED <<jobVars, clientVars, lst, flt, img, pack, scan>>
    \/ \E c \in Callers : SendGet2Answer(c) /\ UNCHANGED <<jobVars, clientVars, lst, flt, img, pack, scan>>

----------------------------------------------------------------------------
(* download_manager.py: trigger_komga_scan and the coroutines that call it *)

\* process_job (lines 419 and 455) and POST /komga/scan (main.py:271)
ScanCallers == {"pipeline", "manual"}

\* timedelta(seconds=30)
DebounceSeconds == 30

\* the clock runs from 0 to MaxTime seconds in steps of Tick seconds
MaxTime == 60

Tick == 10

\* a time that is not set (None), or <<t>> for the time t
NoTime == <<>>

At(t) == <<t>>

\* the library answers 202, answers another status, or the POST raises
ScanAnswers == {"202", "500", "raises"}

ScanNew(configured) ==
    [pc |-> [c \in ScanCallers |-> "idle"],
     now |-> [c \in ScanCallers |-> 0],
     _last_scan |-> NoTime,
     configured |-> configured,
     clock |-> 0,
     \* history: what the last call of each caller returned, when the last
     \* POST was sent, and the shortest time seen between two POSTs in a row
     returned |-> [c \in ScanCallers |-> "none"],
     last_post |-> NoTime,
     closest |-> NoTime]

Debounced(s, now) ==
    s._last_scan # NoTime /\ now - s._last_scan[1] < DebounceSeconds

Closest(s, now) ==
    IF s.last_post = NoTime THEN s.closest
    ELSE IF s.closest = NoTime THEN At(now - s.last_post[1])
    ELSE At(Min(s.closest[1], now - s.last_post[1]))

\* lines 471-481: from the call to the await of the POST
TriggerScan(c) ==
    /\ scan.pc[c] = "idle"
    /\ scan' = IF ~scan.configured
               THEN [scan EXCEPT !.returned[c] = "missing_config"]
               ELSE IF Debounced(scan, scan.clock)
               THEN [scan EXCEPT !.now[c] = scan.clock, !.returned[c] = "debounced"]
               ELSE [scan EXCEPT !.pc[c] = "posting", !.now[c] = scan.clock,
                                 !.returned[c] = "none",
                                 !.last_post = At(scan.clock),
                                 !.closest = Closest(scan, scan.clock)]

\* lines 481-486: the POST is answered or raises
ScanAnswer(c, answer) ==
    /\ scan.pc[c] = "posting"
    /\ scan' = IF answer = "202"
               THEN [scan EXCEPT !.pc[c] = "idle", !._last_scan = At(scan.now[c]),
                                 !.returned[c] = "triggered"]
               ELSE [scan EXCEPT !.pc[c] = "idle",
                                 !.returned[c] = IF answer = "raises" THEN "error"
                                                 ELSE "failed"]

\* time passes
ScanTick ==
    /\ scan.clock + Tick <= MaxTime
    /\ scan' = [scan EXCEPT !.clock = @ + Tick]

ScanInit ==
    \E configured \in BOOLEAN : scan = ScanNew(configured)

ScanNext ==
    \/ \E c \in ScanCallers : TriggerScan(c) /\ UNCHANGED <<jobVars, clientVars, lst, flt, img, pack, sends>>
    \/ \E c \in ScanCallers, answer \in ScanAnswers :
           ScanAnswer(c, answer) /\ UNCHANGED <<jobVars, clientVars, lst, flt, img, pack, sends>>
    \/ ScanTick /\ UNCHANGED <<jobVars, clientVars, lst, flt, img, pack, sends>>

----------------------------------------------------------------------------
(* Specifications *)

StagesAtRest ==
    /\ lst = NoListing
    /\ flt = NoFilter
    /\ img = NoChapter
    /\ OthersAtRest

JobInit ==
    /\ jobs = <<>>
    /\ queue = <<>>
    /\ wjob = NoJob
    /\ pstate = [j \in JobIds |-> NoRun]
    /\ abortLog = [j \in JobIds |-> NoAbort]

JobNext ==
    \/ AddJob /\ UNCHANGED <<clientVars, stageVars>>
    \/ \E job_id \in JobIds : AbortJob(job_id) /\ UNCHANGED <<clientVars, stageVars>>
    \/ \E job_id \in JobIds : CancelJob(job_id) /\ UNCHANGED <<clientVars, stageVars>>
    \/ WorkerDequeue /\ UNCHANGED <<clientVars, stageVars>>
    \/ \E j \in JobIds, n \in 0..MaxChapters : PipelineDiscover(j, n) /\ UNCHANGED <<clientVars, stageVars>>
    \/ \E j \in JobIds : PipelineChapterSkipped(j) /\ UNCHANGED <<clientVars, stageVars>>
    \/ \E j \in JobIds : PipelineChapterPackaged(j) /\ UNCHANGED <<clientVars, stageVars>>
    \/ \E j \in JobIds, e \in ExcTexts : PipelineRaise(j, e) /\ UNCHANGED <<clientVars, stageVars>>
    \/ \E j \in JobIds : PipelineReturn(j) /\ UNCHANGED <<clientVars, stageVars>>

vars == <<jobVars, clientVars, stageVars>>

\* the job table, the queue, the worker and the pipeline; the client is at rest
Init == JobInit /\ ClientNew(NoToken, FALSE) /\ StagesAtRest

Next == JobNext

Spec == Init /\ [][Next]_vars

\* a step of the process_job activation of job j
PipelineStep(j) ==
    /\ \/ \E n \in 0..MaxChapters : PipelineDiscover(j, n)
       \/ PipelineChapterSkipped(j)
       \/ PipelineChapterPackaged(j)
       \/ \E e \in ExcTexts : PipelineRaise(j, e)
       \/ PipelineReturn(j)
    /\ UNCHANGED <<clientVars, stageVars>>

\* the worker takes the job at the head of the queue
WorkerStep == WorkerDequeue /\ UNCHANGED <<clientVars, stageVars>>

\* the same program with a worker task that is scheduled whenever it can take
\* a job from the queue, and pipeline runs whose awaits all come back
FairSpec ==
    /\ Spec
    /\ WF_vars(WorkerStep)
    /\ \A j \in JobIds : WF_vars(PipelineStep(j))

\* the client and its callers' requests; the job table is empty
ClientSpecInit == ClientInit /\ JobInit /\ StagesAtRest

ClientSpecNext == ClientNext

ClientSpec == ClientSpecInit /\ [][ClientSpecNext]_vars

\* the chapter listing loop against an upstream of T chapters; the awaited
\* page request is always answered or fails
ListSpecInit ==
    /\ JobInit /\ ClientNew(NoToken, FALSE)
    /\ ListInit /\ flt = NoFilter /\ img = NoChapter /\ OthersAtRest

ListSpec == ListSpecInit /\ [][ListNext]_vars /\ WF_vars(ListNext)

\* the filter applied to every chapter list, volume filter and chapter filter
\* within the bounds
FilterSpecInit ==
    /\ JobInit /\ ClientNew(NoToken, FALSE)
    /\ lst = NoListing /\ FilterInit /\ img = NoChapter /\ OthersAtRest

FilterSpec == FilterSpecInit /\ [][FilterNext]_vars

\* one chapter of the chapter loop, from "for ch in chapters" to the decision
\* between skipping and packaging
ImgSpecInit ==
    /\ JobInit /\ ClientNew(NoToken, FALSE)
    /\ lst = NoListing /\ flt = NoFilter /\ ChapterInit /\ OthersAtRest

ImgSpec == ImgSpecInit /\ [][ChapterNext]_vars

\* the chapter loop over every list of chapters within the bounds, with the
\* temporary archive and the library directory
PackSpecInit ==
    /\ JobInit /\ ClientNew(NoToken, FALSE)
    /\ lst = NoListing /\ flt = NoFilter /\ img = NoChapter
    /\ PackInit /\ sends = NoSends /\ scan = NoScan

PackSpec == PackSpecInit /\ [][PackNext]_vars

\* the worker's pipeline and the two request handlers as coroutines sharing
\* the client; a step runs one coroutine from one await to the next
SendsSpecInit ==
    /\ JobInit /\ ClientNew(NoToken, FALSE)
    /\ lst = NoListing /\ flt = NoFilter /\ img = NoChapter
    /\ pack = NoPackaging /\ SendsInit /\ scan = NoScan

SendsSpec == SendsSpecInit /\ [][SendsNext]_vars

\* the pipeline and the manual scan handler as coroutines calling
\* trigger_komga_scan on one DownloadManager, and the clock
ScanSpecInit ==
    /\ JobInit /\ ClientNew(NoToken, FALSE)
    /\ lst = NoListing /\ flt = NoFilter /\ img = NoChapter
    /\ pack = NoPackaging /\ sends = NoSends /\ ScanInit

ScanSpec == ScanSpecInit /\ [][ScanNext]_vars

----------------------------------------------------------------------------
(* Job queue and worker: properties *)

Range(q) == {q[i] : i \in 1..Len(q)}

Active(j) == pstate[j].pc \in {"discover", "chapter", "final"}

Finished(j) == pstate[j].pc \in {"returned", "raised"}

Discarded(j) == j \in DOMAIN jobs /\ pstate[j].pc = "none" /\ j \notin Range(queue)

AllowedTransitions ==
    {<<"queued", "running">>, <<"running", "completed">>, <<"running", "failed">>,
     <<"queued", "canceled">>, <<"queued", "aborted">>, <<"running", "aborted">>}

\* C1: a job that cancel_job moved to canceled is never executed: no step sets
\* its status to running and no step starts a process_job activation for it.
\* ("canceled" is written by cancel_job alone, so a job with that status is a
\* job cancel_job canceled.)
C1_CanceledNeverExecuted ==
    [][\A j \in DOMAIN jobs :
        jobs[j].status = "canceled"
            => (jobs'[j].status # "running" /\ pstate'[j].pc = "none")]_vars

\* C2: once abort_job has marked a running job aborted, the pipeline fetches
\* and packages no chapter after the one in progress: the chapter loop of an
\* aborted run never moves on to another chapter.
C2_AbortStopsAtChapterBoundary ==
    [][\A j \in DOMAIN jobs :
        (abortLog[j] = "running" /\ pstate[j].pc = "chapter")
            => (pstate'[j].pc # "chapter" \/ pstate'[j].idx = pstate[j].idx)]_vars

\* C3: every status change of a job is one of queued->running,
\* running->completed, running->failed, queued->canceled, queued->aborted,
\* running->aborted (so completed, failed, canceled and aborted are final).
C3_OnlyAllowedTransitions ==
    [][\A j \in DOMAIN jobs :
        \/ jobs'[j].status = jobs[j].status
        \/ <<jobs[j].status, jobs'[j].status>> \in AllowedTransitions]_vars

\* C4: when process_job has returned normally for a job, the job is completed
\* if abort_job never hit it while it was running and aborted if it did, and
\* the returned summary is the job's result.
C4_ReturnSetsFinalStatus ==
    \A j \in DOMAIN jobs :
        pstate[j].pc = "returned"
            => /\ jobs[j].status = IF abortLog[j] = "running" THEN "aborted" ELSE "completed"
               /\ jobs[j].result = pstate[j].out

C4_Witness ==
    \E j \in DOMAIN jobs, i \in DOMAIN jobs :
        /\ pstate[j].pc = "returned" /\ abortLog[j] = "running"
        /\ jobs[j].status = "aborted"
        /\ Len(jobs[j].result) = 1 /\ jobs[j].result[1].chapters_packaged = 2
        /\ pstate[i].pc = "returned" /\ jobs[i].status = "completed"
        /\ jobs[i].result[1].chapters_processed = MaxChapters

\* C5: when process_job has raised for a job, the job is failed, its error is
\* the exception text, its result is unset, and the worker is no longer on
\* that job (it is back at the queue and serves the next job).
C5_RaiseSetsFailed ==
    \A j \in DOMAIN jobs :
        pstate[j].pc = "raised"
            => /\ jobs[j].status = "failed"
               /\ jobs[j].error = pstate[j].out[1]
               /\ jobs[j].result = NoResult
               /\ wjob # j

C5_Witness ==
    \E j \in DOMAIN jobs, i \in DOMAIN jobs :
        /\ pstate[j].pc = "raised" /\ abortLog[j] = "running"
        /\ jobs[j].status = "failed" /\ jobs[j].error \in ExcTexts
        /\ i > j /\ wjob = i /\ jobs[i].status = "running"

\* C6: a job that was aborted while queued (its status is aborted when the
\* worker dequeues its id) is discarded: process_job is never invoked for it,
\* it stays aborted and has no result.
C6_AbortedQueuedDiscarded ==
    \A j \in DOMAIN jobs :
        abortLog[j] = "queued"
            => /\ pstate[j].pc = "none"
               /\ jobs[j].status = "aborted"
               /\ jobs[j].result = NoResult

C6_Witness ==
    \E j \in DOMAIN jobs, i \in DOMAIN jobs :
        /\ abortLog[j] = "queued" /\ Discarded(j)
        /\ i > j /\ Finished(i)

\* C7: at most one pipeline run is in progress, and a job's pipeline has
\* started only if every job submitted before it has finished its run or was
\* discarded (job ids are handed out in submission order).
C7_SerializedInSubmissionOrder ==
    /\ Cardinality({j \in JobIds : Active(j)}) <= 1
    /\ \A j \in DOMAIN jobs :
        pstate[j].pc # "none"
            => \A i \in 1..(j - 1) : Finished(i) \/ Discarded(i)

C7_Witness ==
    \E j \in DOMAIN jobs :
        /\ j > 1 /\ Active(j) /\ Finished(j - 1)
        /\ jobs[j - 1].status = "completed"

\* C28: every job whose status is completed, failed or canceled, or aborted
\* while no run of process_job is in progress for it, carries a result
\* summary or an error string.
C28_TerminalCarriesResultOrError ==
    \A j \in DOMAIN jobs :
        (\/ jobs[j].status \in {"completed", "failed", "canceled"}
         \/ jobs[j].status = "aborted" /\ ~Active(j))
            => (jobs[j].result # NoResult \/ jobs[j].error # NoError)

Final == {"completed", "failed", "canceled", "aborted"}

\* every job submitted so far has been taken from the queue and has ended
AllEnded ==
    /\ queue = <<>>
    /\ \A j \in DOMAIN jobs : jobs[j].status \in Final

\* C34: with a fair worker and pipeline runs that terminate, every job that
\* is submitted is eventually taken from the queue, and from some point on
\* its status is one of completed, failed, canceled, aborted for good: from
\* some point on the queue is empty and every job of the table has ended.
C34_EveryJobLeavesTheQueueAndEnds == <>[]AllEnded

C34_Witness ==
    /\ DOMAIN jobs = 1..2
    /\ queue = <<>> /\ wjob = NoJob
    /\ jobs[1].status = "completed" /\ pstate[1].out # <<>>
    /\ jobs[2].status = "aborted" /\ abortLog[2] = "queued"

----------------------------------------------------------------------------
(* Chapter listing: properties *)

RECURSIVE Flatten(_)
Flatten(ss) == IF ss = <<>> THEN <<>> ELSE Head(ss) \o Flatten(Tail(ss))

Requesting == lst.pc \in {"request", "fallback"}

C12_OffsetIsAccumulated ==
    /\ lst.offset = Len(lst.chapters)
    /\ (Requesting /\ lst.pages # <<>>)
           => (lst.last.n > 0 /\ lst.offset < lst.last.total)
    /\ (lst.pc = "done" /\ ~lst.failed)
           => (lst.last.n = 0 \/ lst.offset >= lst.last.total)

\* C12: whenever a page is requested the offset is the number of chapters
\* accumulated so far; the loop goes on only after a non-empty page that left
\* the offset below the reported total, and stops otherwise; and the listing
\* of an upstream with finitely many chapters ends.
C12_OffsetAdvancesByPageAndLoopEnds ==
    []C12_OffsetIsAccumulated /\ <>(lst.pc = "done")

C12_Witness ==
    /\ lst.pc = "done" /\ ~lst.failed
    /\ Len(lst.pages) >= 2
    /\ lst.offset = lst.T

\* C13: a 400 answer at the page size 500 switches the page size to 100 and
\* the same offset is requested again; the switch happens at most once and
\* lasts for the rest of the listing; the accumulated list is the upstream's
\* chapters 1 .. offset, each once and in order.
C13_FallbackOnceSameOffset ==
    /\ lst.switches <= 1
    /\ lst.limit = (IF lst.switches = 1 THEN fallback_limit ELSE limit_default)
    /\ (lst.prev.kind = "http400" /\ lst.prev.limit = limit_default)
           => lst.pc = "fallback"
    /\ lst.pc = "fallback"
           => /\ lst.prev.kind = "http400" /\ lst.prev.limit = limit_default
              /\ lst.prev.offset = lst.offset
    /\ lst.chapters = Page(0, lst.offset)

C13_Witness ==
    /\ lst.switches = 1
    /\ lst.pc = "done" /\ ~lst.failed
    /\ Len(lst.pages) >= 3
    /\ lst.pages[1] # <<>> /\ lst.pages[1][1] = 1
    /\ lst.prev.limit = fallback_limit
    /\ Len(lst.chapters) = lst.T

\* C14: no error of a page request leaves the listing as an exception: a
\* rejected fallback request, an HTTP error other than the 400 that triggers
\* the fallback, and any other exception end the listing, and the chapters
\* handed on are exactly those of the pages received before.
C14_ListingNeverRaises ==
    /\ lst.pc # "raised"
    /\ lst.failed => lst.pc = "done"
    /\ (lst.prev.kind \in PageErrors /\ lst.pc # "fallback") => lst.failed
    /\ lst.chapters = Flatten(lst.pages)

C14_Witness ==
    /\ lst.pc = "done" /\ lst.failed
    /\ lst.prev.kind = "other"
    /\ lst.switches = 1
    /\ Len(lst.chapters) >= 2

----------------------------------------------------------------------------
(* Filtering: properties *)

\* a filter is configured when the job carries a non-empty list for it
Configured(field) == field.present /\ field.items # <<>>

Numeric(label) == chapter_str_to_float(label) # <<>>
Value(label) == chapter_str_to_float(label)[1]

TwoNumericEndpoints(field) ==
    /\ Len(field.items) = 2
    /\ Numeric(field.items[1]) /\ Numeric(field.items[2])

\* the volume predicate and the two forms of the chapter predicate
InVolumes(ch) ==
    ch.volume # None /\ \E i \in 1..Len(flt.volumes.items) : flt.volumes.items[i] = ch.volume

InChapterRange(ch) ==
    /\ Numeric(ch.chapter)
    /\ Value(flt.chapters_field.items[1]) <= Value(ch.chapter)
    /\ Value(ch.chapter) <= Value(flt.chapters_field.items[2])

InChapterList(ch) ==
    /\ ch.chapter # None
    /\ \E i \in 1..Len(flt.chapters_field.items) : flt.chapters_field.items[i] = ch.chapter

SatisfiesBoth(ch) ==
    /\ InVolumes(ch)
    /\ IF TwoNumericEndpoints(flt.chapters_field) THEN InChapterRange(ch)
       ELSE InChapterList(ch)

\* the positions of s whose element satisfies SatisfiesBoth, in order
RECURSIVE RetainBoth(_)
RetainBoth(s) ==
    IF s = <<>> THEN <<>>
    ELSE (IF SatisfiesBoth(Head(s)) THEN <<Head(s)>> ELSE <<>>) \o RetainBoth(Tail(s))

\* C15: with neither a volume filter nor a chapter filter configured (each
\* absent or an empty list) the filtering stage yields the identical sequence
\* of chapters.
C15_NoFilterIsIdentity ==
    (flt.pc = "done" /\ ~Configured(flt.volumes) /\ ~Configured(flt.chapters_field))
        => flt.out = flt.chapters

C15_Witness ==
    /\ flt.pc = "done"
    /\ flt.volumes = Absent /\ flt.chapters_field = Given(<<>>)
    /\ Len(flt.chapters) = 2 /\ flt.chapters[1] # flt.chapters[2]
    /\ flt.chapters[1].chapter = None

\* C16: with a chapter filter of exactly two elements that parse as numbers
\* a <= b, every retained chapter has a label that parses as a number within
\* [a, b], and no chapter whose label is missing or not numeric is retained.
C16_NumericRangeFilter ==
    (/\ flt.pc = "done"
     /\ TwoNumericEndpoints(flt.chapters_field)
     /\ Value(flt.chapters_field.items[1]) <= Value(flt.chapters_field.items[2]))
        => /\ \A i \in 1..Len(flt.out) :
                  /\ Numeric(flt.out[i].chapter)
                  /\ Value(flt.chapters_field.items[1]) <= Value(flt.out[i].chapter)
                  /\ Value(flt.out[i].chapter) <= Value(flt.chapters_field.items[2])
           /\ \A i \in 1..Len(flt.chapters) :
                  ~Numeric(flt.chapters[i].chapter)
                      => flt.chapters[i] \notin Elems(flt.out)

C16_Witness ==
    /\ flt.pc = "done"
    /\ flt.chapters_field = Given(<<"1", "2">>)
    /\ Len(flt.chapters) = 2
    /\ flt.chapters[1].chapter = "x" /\ flt.chapters[2].chapter = "2.0"
    /\ Len(flt.out) = 1

C18_FiltersComposeConjunctively ==
    (flt.pc = "done" /\ Configured(flt.volumes) /\ Configured(flt.chapters_field))
        => flt.out = RetainBoth(flt.chapters)

C18_Witness ==
    /\ flt.pc = "done"
    /\ Configured(flt.volumes) /\ Configured(flt.chapters_field)
    /\ Len(flt.chapters) = 2 /\ Len(flt.out) = 1
    /\ InVolumes(flt.chapters[1]) /\ ~InChapterList(flt.chapters[1])
    /\ ~TwoNumericEndpoints(flt.chapters_field)
    /\ flt.out = <<flt.chapters[2]>>

----------------------------------------------------------------------------
(* One chapter's images: properties *)

\* get_at_home has returned for the chapter
Resolved == img.data_kind # "none"

PreferredKind == IF img.use_datasaver THEN "data-saver" ELSE "data"
OtherKind == IF img.use_datasaver THEN "data" ELSE "data-saver"
Size(kind) == IF kind = "data" THEN img.data_regular ELSE img.data_saver

\* the reduced-quality tier is preferred but empty, the full-quality tier is not
SaverEmptySubstituted ==
    /\ Resolved /\ img.base_ok
    /\ img.use_datasaver /\ img.data_saver = 0 /\ img.data_regular > 0

\* C19: the tier fetched from is the preferred one when it is non-empty and
\* the other one when the preferred is empty and the other is not; with the
\* reduced-quality tier preferred but empty and the full-quality tier
\* non-empty, the images are requested from the full-quality tier, every
\* image fetched is a full-quality one, and the substitution itself counts
\* no error and no skip.
C19_TierSelection ==
    /\ (Resolved /\ Size(PreferredKind) > 0)
           => (img.data_kind = PreferredKind /\ img.data = Size(PreferredKind))
    /\ (Resolved /\ Size(PreferredKind) = 0 /\ Size(OtherKind) > 0)
           => (img.data_kind = OtherKind /\ img.data = Size(OtherKind))
    /\ SaverEmptySubstituted
           => /\ img.pass = "first" /\ img.data_kind = "data"
              /\ \A k \in 1..Len(img.image_bytes) : img.image_bytes[k][1] = "data"
              /\ img.left = NoImage
                     => /\ img.pc = "fetch"
                        /\ img.errors = img.errors_at_entry
                        /\ img.skipped_chapters = 0 /\ img.skipped_no_images = 0
              /\ img.pc = "package"
                     => img.skipped_chapters = 0 /\ img.skipped_no_images = 0

C19_Witness ==
    /\ SaverEmptySubstituted
    /\ img.pc = "package"
    /\ img.data_regular = 2 /\ Len(img.image_bytes) = 2
    /\ img.errors = img.errors_at_entry

\* C20: a 429 answer does not use up one of the 3 attempts of an image: an
\* image whose attempt loop is left without the image has had 3 answers
\* other than 429.
C20_429OutsideAttemptBudget ==
    (img.left # NoImage /\ ~img.left.ok) => img.left.non429 = Attempts

\* the reduced-quality pass has met the circuit breaker's condition: its 5
\* most recent images all ended in a "400" failure, and the full-quality tier
\* is not empty
Abandoned ==
    /\ img.run400 >= Consecutive400Limit
    /\ img.data_kind = "data-saver"
    /\ img.data_regular > 0

\* C21: whenever the circuit breaker abandons the reduced-quality pass, the
\* chapter goes on to the fallback pass on the full-quality tier, whether or
\* not reduced-quality images had been fetched before.
C21_BreakerFallsBack == Abandoned => img.pass = "fallback"

\* C22: when the fallback pass has yielded an image, the error counter is
\* its value at the start of the chapter plus the failures of the fallback
\* pass: no failure of the abandoned reduced-quality pass is left in it.
C22_FallbackDiscardsAbandonedErrors ==
    (img.pass = "fallback" /\ img.pc = "package")
        => img.errors = img.errors_at_entry + img.fallback_errors

\* C23: once the 5 most recent images of the reduced-quality tier have ended
\* in a "400" failure and the full-quality tier is not empty, no request for
\* a reduced-quality image is outstanding or made.
C23_NoRequestAfterBreaker == Abandoned => img.pc # "fetch"

C23_Witness ==
    /\ Abandoned
    /\ img.data_saver = 6 /\ img.run400 = 5
    /\ img.left.tier = "data-saver"
    /\ img.errors = img.errors_at_entry + 5

\* C31: the circuit breaker abandons the reduced-quality pass only when the
\* 5 images attempted last in that pass all ended in a "400" failure: an
\* image fetched, an image failing otherwise, or an image dropped after 429
\* answers, restarts the count.
C31_BreakerOnlyAfterFiveRejections ==
    BreakerTripped(img) => img.run400 >= Consecutive400Limit

\* C32: an image whose attempt loop is over, in either pass, has had its
\* bytes appended to the image sequence or has been counted as exactly one
\* error, whatever its attempts were answered.
C32_DroppedImageIsCounted ==
    img.left # NoImage => (img.left.ok \/ img.left.counted = 1)

----------------------------------------------------------------------------
(* The chapter loop and its archives: properties *)

\* the chapters whose iteration is over
Taken == 1..Len(pack.outcomes)

FinalImages(k) == pack.chapters[k].acq.images

\* the image entries of an archive: its entries but the metadata entry
ImagesOf(entries) ==
    IF entries # <<>> /\ entries[1] = ComicInfoEntry THEN Tail(entries) ELSE entries

\* the archive of the chapter whose iteration ended last
LastArchive ==
    pack.library[FinalPath(pack.chapters[Len(pack.outcomes)], Len(pack.outcomes))]

\* C24: a chapter whose iteration is over was packaged exactly if its final
\* image sequence is not empty; a chapter with a resolved source and an empty
\* sequence is counted in skipped_no_images; and the archive just packaged
\* holds the fetched images in their order under the entry names 1, 2, .. n,
\* also when an image in between had failed (as long as no later chapter is
\* being moved to a final path).
C24_PackagedIffImages ==
    /\ \A k \in Taken : pack.outcomes[k] = "packaged" <=> FinalImages(k) # <<>>
    /\ pack.skipped_no_images =
           Cardinality({k \in Taken : /\ pack.chapters[k].acq.kind \in {"no_source", "fetched"}
                                      /\ FinalImages(k) = <<>>})
    /\ (/\ pack.outcomes # <<>> /\ pack.outcomes[Len(pack.outcomes)] = "packaged"
        /\ pack.pc \notin {"copying", "raised"})
           => /\ LastArchive.state = "complete"
              /\ LET images == ImagesOf(LastArchive.entries)
                     fetched == FinalImages(Len(pack.outcomes))
                 IN  /\ Len(images) = Len(fetched)
                     /\ \A i \in 1..Len(images) :
                            images[i].name = i /\ images[i].content = fetched[i]

C24_Witness ==
    /\ pack.outcomes = <<"skipped", "packaged">>
    /\ pack.chapters[1].acq.kind = "fetched"
    /\ FinalImages(2) = <<1, 3>>
    /\ pack.has_metadata
    /\ Len(LastArchive.entries) = 3

Unresolved(k) == pack.chapters[k].acq.kind \in {"at_home_raises", "no_source"}

\* C25: a chapter whose image source does not resolve is counted as skipped
\* and is never the chapter at which an exception leaves the run; the chapters
\* after it are taken, and a run returns a summary having taken every
\* chapter; a run in which no chapter resolves always returns.
C25_ResolutionFailureSkipsChapter ==
    /\ \A k \in Taken : Unresolved(k) => pack.outcomes[k] = "skipped"
    /\ pack.skipped_chapters >= Cardinality({k \in Taken : Unresolved(k)})
    /\ pack.pc = "raised" => ~Unresolved(pack.idx)
    /\ pack.pc = "returned"
           => /\ Len(pack.outcomes) = Len(pack.chapters)
              /\ pack.result # <<>>
    /\ (\A k \in 1..Len(pack.chapters) : Unresolved(k)) => pack.pc # "raised"

C25_Witness ==
    /\ pack.pc = "returned"
    /\ Len(pack.chapters) = 2
    /\ pack.chapters[1].acq.kind = "at_home_raises"
    /\ pack.outcomes = <<"skipped", "packaged">>
    /\ pack.result[1].skipped_chapters = 1

\* C26: the library directory changes only when the temporary archive holds
\* the metadata entry (if there is metadata) and an entry for every fetched
\* image; in particular not while entries are being written, and not when
\* writing fails.
C26_FinalPathOnlyAfterAllEntries ==
    [][pack'.library # pack.library
          => /\ pack.pc \in {"move", "copying"}
             /\ Len(pack.tmp) = (IF pack.has_metadata THEN 1 ELSE 0)
                                    + Len(FinalImages(pack.idx))
             /\ pack.has_metadata => pack.tmp[1] = ComicInfoEntry]_vars

C26_Witness ==
    /\ pack.pc = "raised"
    /\ pack.has_metadata
    /\ Len(pack.tmp) = 2 /\ Len(FinalImages(pack.idx)) = 2
    /\ pack.library[FinalPath(pack.chapters[pack.idx], pack.idx)] = NoFile

\* C27: when every one of the n chapters of a run had all its images fetched
\* without an error, the summary reports chapters_processed = n,
\* chapters_packaged = n and errors = 0, and n archives exist in the library.
C27_OneArchivePerChapter ==
    (/\ pack.pc = "returned"
     /\ \A k \in 1..Len(pack.chapters) :
            pack.chapters[k].acq = [kind |-> "fetched", images |-> <<1, 2>>, errors |-> 0])
        => /\ pack.result[1].chapters_processed = Len(pack.chapters)
           /\ pack.result[1].chapters_packaged = Len(pack.chapters)
           /\ pack.result[1].errors = 0
           /\ Cardinality({path \in DOMAIN pack.library :
                               pack.library[path].state = "complete"})
                  = Len(pack.chapters)

\* C33: every chapter whose iteration is over is counted exactly once, as
\* packaged or as skipped, and the chapters skipped as external or for lack
\* of images are among the skipped ones; so a summary that is returned has
\* chapters_processed = chapters_packaged + skipped_chapters and
\* skipped_external + skipped_no_images <= skipped_chapters.
C33_SummaryAccountsForEveryChapter ==
    /\ Len(pack.created_files) + pack.skipped_chapters = Len(pack.outcomes)
    /\ pack.skipped_external + pack.skipped_no_images <= pack.skipped_chapters
    /\ pack.pc = "returned"
           => LET result == pack.result[1] IN
              /\ result.chapters_processed
                     = result.chapters_packaged + result.skipped_chapters
              /\ result.skipped_external + result.skipped_no_images
                     <= result.skipped_chapters

C33_Witness ==
    /\ pack.pc = "returned"
    /\ Len(pack.chapters) = 2
    /\ pack.chapters[1].acq.kind = "external"
    /\ pack.chapters[2].acq.kind = "fetched" /\ FinalImages(2) = <<1, 2>>
    /\ pack.result[1].chapters_processed = 2
    /\ pack.result[1].chapters_packaged = 1
    /\ pack.result[1].skipped_chapters = 1
    /\ pack.result[1].skipped_external = 1

----------------------------------------------------------------------------
(* Callers of the shared client: properties *)

InProgress == {c \in Callers : sends.pc[c] # "idle"}

\* C29: at no point are two calls of the shared client's send in progress,
\* so the password grant and the refresh are never run by two callers at the
\* same time.
C29_OneSendAtATime == Cardinality(InProgress) <= 1

----------------------------------------------------------------------------
(* Library scan: properties *)

\* C30: any two scan requests that trigger_komga_scan posts one after the
\* other are at least 30 seconds apart, whatever the earlier one's outcome
\* and whichever callers posted them.
C30_ScanPostsThirtySecondsApart ==
    scan.closest # NoTime => scan.closest[1] >= DebounceSeconds

----------------------------------------------------------------------------
(* Client: properties *)

Retryable(status) == status = 429 \/ (500 <= status /\ status < 600)

\* C8: every API GET, image GET and cover GET dispatched on the shared client
\* has entered both rate-limit windows, the per-second and the per-minute one.
C8_EveryRequestHoldsBothWindows ==
    lastReq.kind \in {"api", "image", "cover"} => lastReq.permits = {"rps", "rpm"}

\* C9: whatever the server answers to the request, the caller of the client's
\* send never gets a 429 or 5xx, neither as the returned response nor as the
\* raised failure (every such answer is retried instead).
C9_NoRetryableOutcome ==
    outcome.origin = "get" => ~Retryable(outcome.status)

\* C11: the send retries after every 429 and every 5xx answer, without a
\* ceiling: no send ends (returns or raises) on an answer that is a 429 or a
\* 5xx.
C11_EveryRetryableAnswerRetried ==
    [][(cpc \in {"get_wait", "get2_wait"} /\ cpc' = "idle")
            => ~Retryable(outcome'.status)]_vars

\* C10: one send performs at most one refresh exchange; after a successful
\* refresh the request is re-sent exactly once; when the refresh is
\* unavailable (no refresh token) or fails, the 401 is raised to the caller
\* and the request is not re-sent.
C10_OneRefreshOneResend ==
    /\ call.refreshes <= 1
    /\ call.resends <= 1
    /\ call.resends = 1 => call.refreshRes = "ok"
    /\ call.refreshRes = "unavailable" => call.refreshes = 0
    /\ call.refreshRes \in {"ok", "failed"} => call.refreshes = 1
    /\ (cpc = "idle" /\ call.refreshRes = "ok") => call.resends = 1
    /\ (cpc = "idle" /\ call.refreshRes \in {"unavailable", "failed"})
            => (outcome = Raised(401, "get") /\ call.resends = 0)

C10_Witness ==
    /\ cpc = "idle"
    /\ call.retried
    /\ call.refreshes = 1 /\ call.refreshRes = "ok" /\ call.resends = 1
    /\ outcome = Returned(200)
    /\ authHeader = "rf"

====
